---- MODULE Spec2Model ----
(***************************************************************************)
(* Model of the JSON editor component of json-tools-next                   *)
(* (MonacoJsonEditor, src/unnamed/part_000): the editor buffer, its undo   *)
(* history, the parse-error state, the error-details modal, the debounced  *)
(* validation timer and the operations exposed through the component ref.  *)
(*                                                                         *)
(* Texts are sequences of one-character strings.  JSON.parse, JSON5.parse  *)
(* and JSON.stringify are modelled by a recursive-descent parser and a     *)
(* serialiser over that representation.                                    *)
(***************************************************************************)
EXTENDS Integers, Sequences, FiniteSets, TLC

(***************************************************************************)
(* Characters and texts                                                    *)
(***************************************************************************)
NL == "\n"
DQ == "\""
SQ == "'"
BS == "\\"

IsWs(c) == c \in {" ", NL}
IsDigit(c) == c \in {"0", "1", "2", "3", "4", "5", "6", "7", "8", "9"}
IsIdChar(c) == c \in {"a", "b", "c", "e", "f", "l", "n", "r", "s", "t", "u"}

DigitVal(c) ==
  CASE c = "0" -> 0 [] c = "1" -> 1 [] c = "2" -> 2 [] c = "3" -> 3
    [] c = "4" -> 4 [] c = "5" -> 5 [] c = "6" -> 6 [] c = "7" -> 7
    [] c = "8" -> 8 [] OTHER -> 9

DigitChar(d) ==
  CASE d = 0 -> "0" [] d = 1 -> "1" [] d = 2 -> "2" [] d = 3 -> "3"
    [] d = 4 -> "4" [] d = 5 -> "5" [] d = 6 -> "6" [] d = 7 -> "7"
    [] d = 8 -> "8" [] OTHER -> "9"

\* String.prototype.trim: strip leading and trailing white space.
RECURSIVE TrimLeft(_)
TrimLeft(t) ==
  IF t # <<>> /\ IsWs(Head(t)) THEN TrimLeft(Tail(t)) ELSE t

RECURSIVE TrimRight(_)
TrimRight(t) ==
  IF t # <<>> /\ IsWs(t[Len(t)]) THEN TrimRight(SubSeq(t, 1, Len(t) - 1)) ELSE t

Trim(t) == TrimRight(TrimLeft(t))

(***************************************************************************)
(* JSON values: one record shape for every kind, so that any two values    *)
(* can be compared.  kids is the ordered member list of an object          *)
(* ([k |-> key, v |-> value]) or the element list of an array (k = <<>>).  *)
(***************************************************************************)
MkNum(n)  == [t |-> "num",  n |-> n, s |-> <<>>, kids |-> <<>>]
MkStr(s)  == [t |-> "str",  n |-> 0, s |-> s,    kids |-> <<>>]
MkLit(l)  == [t |-> l,      n |-> 0, s |-> <<>>, kids |-> <<>>]
MkArr(ks) == [t |-> "arr",  n |-> 0, s |-> <<>>, kids |-> ks]
MkObj(ks) == [t |-> "obj",  n |-> 0, s |-> <<>>, kids |-> ks]
Undefined == MkLit("undefined")

\* Parser results: ok, the value, the next position; on failure p is the
\* position of the offending character (Len + 1 at the end of the input).
POk(v, p) == [ok |-> TRUE, v |-> v, p |-> p]
PFail(p)  == [ok |-> FALSE, v |-> Undefined, p |-> p]

\* obj[key] = value on an ordered member list: a repeated key keeps its
\* first position and takes the last value.
PutMember(ks, key, v) ==
  IF \E i \in 1..Len(ks) : ks[i].k = key
  THEN [i \in 1..Len(ks) |-> IF ks[i].k = key THEN [k |-> key, v |-> v] ELSE ks[i]]
  ELSE Append(ks, [k |-> key, v |-> v])

\* Position after the "*/" that closes a block comment (Len + 1 if none).
RECURSIVE BlockEnd(_, _)
BlockEnd(t, p) ==
  IF p + 1 > Len(t) THEN Len(t) + 1
  ELSE IF t[p] = "*" /\ t[p + 1] = "/" THEN p + 2
  ELSE BlockEnd(t, p + 1)

\* Position of the newline that ends a line comment (Len + 1 if none).
RECURSIVE LineEnd(_, _)
LineEnd(t, p) ==
  IF p > Len(t) \/ t[p] = NL THEN p ELSE LineEnd(t, p + 1)

\* Skip white space, and in JSON5 comments too.
RECURSIVE SkipWs(_, _, _)
SkipWs(t, p, five) ==
  IF p > Len(t) THEN p
  ELSE IF IsWs(t[p]) THEN SkipWs(t, p + 1, five)
  ELSE IF five /\ t[p] = "/" /\ p + 1 <= Len(t) /\ t[p + 1] = "/"
       THEN SkipWs(t, LineEnd(t, p + 2), five)
  ELSE IF five /\ t[p] = "/" /\ p + 1 <= Len(t) /\ t[p + 1] = "*"
       THEN SkipWs(t, BlockEnd(t, p + 2), five)
  ELSE p

\* The body of a string literal opened by quote q, from position p on.
RECURSIVE StrBody(_, _, _, _, _)
StrBody(t, p, q, five, acc) ==
  IF p > Len(t) THEN PFail(p)
  ELSE IF t[p] = q THEN POk(MkStr(acc), p + 1)
  ELSE IF t[p] = BS THEN
    IF p + 1 > Len(t) THEN PFail(p + 1)
    ELSE IF t[p + 1] \in {DQ, BS, "/"} \/ (five /\ t[p + 1] = SQ)
         THEN StrBody(t, p + 2, q, five, Append(acc, t[p + 1]))
    ELSE IF t[p + 1] = "n" THEN StrBody(t, p + 2, q, five, Append(acc, NL))
    ELSE PFail(p + 1)
  ELSE IF t[p] = NL THEN PFail(p)
  ELSE StrBody(t, p + 1, q, five, Append(acc, t[p]))

RECURSIVE NumBody(_, _, _)
NumBody(t, p, acc) ==
  IF p <= Len(t) /\ IsDigit(t[p])
  THEN NumBody(t, p + 1, acc * 10 + DigitVal(t[p]))
  ELSE POk(MkNum(acc), p)

RECURSIVE IdBody(_, _, _)
IdBody(t, p, acc) ==
  IF p <= Len(t) /\ IsIdChar(t[p])
  THEN IdBody(t, p + 1, Append(acc, t[p]))
  ELSE POk(MkStr(acc), p)

\* The literal word w at position p.
Word(t, p, w, v) ==
  LET n == Len(w)
      m == CHOOSE k \in 0..n :
             /\ \A i \in 1..k : p + i - 1 <= Len(t) /\ t[p + i - 1] = w[i]
             /\ (k < n => ~(p + k <= Len(t) /\ t[p + k] = w[k + 1]))
  IN IF m = n THEN POk(v, p + n) ELSE PFail(p + m)

RECURSIVE ParseValue(_, _, _)
RECURSIVE ParseMembers(_, _, _, _, _)
RECURSIVE ParseElements(_, _, _, _, _)

\* Each step of the parsers is a local operator of what the steps before
\* it found.
ParseValue(t, p0, five) ==
  LET At(p) ==
        IF p > Len(t) THEN PFail(p)
        ELSE IF t[p] = "{" THEN ParseMembers(t, p + 1, five, <<>>, TRUE)
        ELSE IF t[p] = "[" THEN ParseElements(t, p + 1, five, <<>>, TRUE)
        ELSE IF t[p] = DQ \/ (five /\ t[p] = SQ)
          THEN StrBody(t, p + 1, t[p], five, <<>>)
        ELSE IF IsDigit(t[p]) THEN NumBody(t, p, 0)
        ELSE IF t[p] = "t" THEN Word(t, p, <<"t", "r", "u", "e">>, MkLit("true"))
        ELSE IF t[p] = "f"
          THEN Word(t, p, <<"f", "a", "l", "s", "e">>, MkLit("false"))
        ELSE IF t[p] = "n" THEN Word(t, p, <<"n", "u", "l", "l">>, MkLit("null"))
        ELSE PFail(p)
  IN At(SkipWs(t, p0, five))

\* After "{" or after a "," inside an object: a member or (first, or JSON5's
\* trailing comma) the closing brace.
ParseMembers(t, p0, five, acc, first) ==
  LET After(ks, e) ==
        IF e > Len(t) THEN PFail(e)
        ELSE IF t[e] = "," THEN ParseMembers(t, e + 1, five, ks, FALSE)
        ELSE IF t[e] = "}" THEN POk(MkObj(ks), e + 1)
        ELSE PFail(e)
      Member(key, val) ==
        IF ~val.ok THEN val
        ELSE After(PutMember(acc, key.v.s, val.v), SkipWs(t, val.p, five))
      Colon(key, c) ==
        IF c > Len(t) \/ t[c] # ":" THEN PFail(c)
        ELSE Member(key, ParseValue(t, c + 1, five))
      Key(key) ==
        IF ~key.ok THEN key ELSE Colon(key, SkipWs(t, key.p, five))
      At(p) ==
        IF p > Len(t) THEN PFail(p)
        ELSE IF t[p] = "}" /\ (first \/ five) THEN POk(MkObj(acc), p + 1)
        ELSE Key(IF t[p] = DQ \/ (five /\ t[p] = SQ)
                   THEN StrBody(t, p + 1, t[p], five, <<>>)
                 ELSE IF five /\ IsIdChar(t[p]) THEN IdBody(t, p, <<>>)
                 ELSE PFail(p))
  IN At(SkipWs(t, p0, five))

ParseElements(t, p0, five, acc, first) ==
  LET After(ks, e) ==
        IF e > Len(t) THEN PFail(e)
        ELSE IF t[e] = "," THEN ParseElements(t, e + 1, five, ks, FALSE)
        ELSE IF t[e] = "]" THEN POk(MkArr(ks), e + 1)
        ELSE PFail(e)
      Element(val) ==
        IF ~val.ok THEN val
        ELSE After(Append(acc, [k |-> <<>>, v |-> val.v]),
                   SkipWs(t, val.p, five))
      At(p) ==
        IF p > Len(t) THEN PFail(p)
        ELSE IF t[p] = "]" /\ (first \/ five) THEN POk(MkArr(acc), p + 1)
        ELSE Element(ParseValue(t, p, five))
  IN At(SkipWs(t, p0, five))

\* A whole text: one value and nothing but white space after it.
ParseText(t, five) ==
  LET End(r, e) == IF e <= Len(t) THEN PFail(e) ELSE r
      Value(r) == IF ~r.ok THEN r ELSE End(r, SkipWs(t, r.p, five))
  IN Value(ParseValue(t, 1, five))

\* JSON.parse(text): ok = FALSE stands for the SyntaxError it throws.
JSONparse(t) == ParseText(t, FALSE)
\* JSON5.parse(text)
JSON5parse(t) == ParseText(t, TRUE)

(***************************************************************************)
(* Serialisers                                                             *)
(***************************************************************************)
RECURSIVE Concat(_)
Concat(ss) == IF ss = <<>> THEN <<>> ELSE Head(ss) \o Concat(Tail(ss))

RECURSIVE Spaces(_)
Spaces(n) == IF n <= 0 THEN <<>> ELSE <<" ">> \o Spaces(n - 1)

RECURSIVE Count(_, _)
Count(t, c) ==
  IF t = <<>> THEN 0 ELSE (IF Head(t) = c THEN 1 ELSE 0) + Count(Tail(t), c)

\* The characters of a string with quote q, backslash and newline escaped.
RECURSIVE EscBody(_, _)
EscBody(t, q) ==
  IF t = <<>> THEN <<>>
  ELSE (IF Head(t) = q THEN <<BS, q>>
        ELSE IF Head(t) = BS THEN <<BS, BS>>
        ELSE IF Head(t) = NL THEN <<BS, "n">>
        ELSE <<Head(t)>>) \o EscBody(Tail(t), q)

RECURSIVE NumText(_)
NumText(n) ==
  IF n < 10 THEN <<DigitChar(n)>> ELSE NumText(n \div 10) \o <<DigitChar(n % 10)>>

LitText(l) ==
  CASE l = "true" -> <<"t", "r", "u", "e">>
    [] l = "false" -> <<"f", "a", "l", "s", "e">>
    [] OTHER -> <<"n", "u", "l", "l">>

\* JSON5.stringify picks the quote that occurs less often in the string,
\* the single quote on a tie.
Quote5(t) == IF Count(t, SQ) > Count(t, DQ) THEN DQ ELSE SQ

StrText(t, five) ==
  IF five THEN <<Quote5(t)>> \o EscBody(t, Quote5(t)) \o <<Quote5(t)>>
  ELSE <<DQ>> \o EscBody(t, DQ) \o <<DQ>>

\* JSON5.stringify writes a key that is an identifier without quotes.
KeyText(k, five) ==
  IF five /\ k # <<>> /\ \A i \in 1..Len(k) : IsIdChar(k[i]) THEN k
  ELSE StrText(k, five)

\* JSON.stringify(v, null, indent) and, with five, JSON5.stringify(v,
\* {space: indent}); indent = 0 is the compact form.
RECURSIVE Ser(_, _, _, _)
RECURSIVE SerKids(_, _, _, _, _)

Ser(v, indent, level, five) ==
  CASE v.t = "num" -> NumText(v.n)
    [] v.t = "str" -> StrText(v.s, five)
    [] v.t \in {"arr", "obj"} ->
         LET open  == IF v.t = "arr" THEN "[" ELSE "{"
             close == IF v.t = "arr" THEN "]" ELSE "}"
         IN IF v.kids = <<>> THEN <<open, close>>
            ELSE IF indent = 0
              THEN <<open>> \o SerKids(v, 1, indent, level, five) \o <<close>>
            ELSE <<open, NL>> \o Spaces(indent * (level + 1))
                 \o SerKids(v, 1, indent, level, five)
                 \o (IF five THEN <<",">> ELSE <<>>)
                 \o <<NL>> \o Spaces(indent * level) \o <<close>>
    [] OTHER -> LitText(v.t)

SerKids(v, i, indent, level, five) ==
  LET kid  == v.kids[i]
      key  == IF v.t = "obj"
                THEN KeyText(kid.k, five) \o <<":">>
                     \o (IF indent = 0 THEN <<>> ELSE <<" ">>)
                ELSE <<>>
      item == key \o Ser(kid.v, indent, level + 1, five)
  IN IF i = Len(v.kids) THEN item
     ELSE item \o <<",">>
          \o (IF indent = 0 THEN <<>> ELSE <<NL>> \o Spaces(indent * (level + 1)))
          \o SerKids(v, i + 1, indent, level, five)

JSONstringify(v, indent) == Ser(v, indent, 0, FALSE)
JSON5stringify(v, indent) == Ser(v, indent, 0, TRUE)

(***************************************************************************)
(* @/utils/json: the helpers the editor imports (part_000:12-20).          *)
(***************************************************************************)
\* JsonErrorInfo | undefined.  parser names the parser that produced the
\* message; line = 0 means that the parser gave no position.
NoError == [parser |-> "none", line |-> 0, column |-> 0]
ErrorInfo(parser, line, column) ==
  [parser |-> parser, line |-> line, column |-> column]

\* 1-based line and column of the character at 1-based position p.
LineOf(t, p) == 1 + Count(SubSeq(t, 1, p - 1), NL)
ColumnOf(t, p) ==
  LET before == {i \in 1..(p - 1) : t[i] = NL}
      last   == IF before = {} THEN 0
                ELSE CHOOSE i \in before : \A j \in before : j <= i
  IN p - last

\* JSON.parse reports "Unexpected end of JSON input" without a position, and
\* any other syntax error with the offset of the offending character.
jsonParseError(t) ==
  LET Error(r) ==
        IF r.ok THEN NoError
        ELSE IF r.p > Len(t) THEN ErrorInfo("json", 0, 0)
        ELSE ErrorInfo("json", LineOf(t, r.p), ColumnOf(t, r.p))
  IN Error(JSONparse(t))

\* JSON5's SyntaxError always carries lineNumber and columnNumber.
json5ParseError(t) ==
  LET Error(r) ==
        IF r.ok THEN NoError
        ELSE ErrorInfo("json5", LineOf(t, r.p), ColumnOf(t, r.p))
  IN Error(JSON5parse(t))

isArrayOrObject(v) == v.t \in {"arr", "obj"}

\* The text as the body of a JSON string literal: quotes, backslashes and
\* control characters escaped, no enclosing quotes (formatModelByUnEscapeJson
\* adds them).
escapeJson(t) == EscBody(t, DQ)

\* Remove // and /* */ comments that are not inside a string literal.
RECURSIVE StripComments(_, _, _)
StripComments(t, p, inStr) ==
  IF p > Len(t) THEN <<>>
  ELSE IF inStr THEN
    IF t[p] = BS /\ p + 1 <= Len(t)
      THEN <<t[p], t[p + 1]>> \o StripComments(t, p + 2, TRUE)
    ELSE <<t[p]>> \o StripComments(t, p + 1, t[p] # DQ)
  ELSE IF t[p] = DQ THEN <<t[p]>> \o StripComments(t, p + 1, TRUE)
  ELSE IF t[p] = "/" /\ p + 1 <= Len(t) /\ t[p + 1] = "/"
    THEN StripComments(t, LineEnd(t, p + 2), FALSE)
  ELSE IF t[p] = "/" /\ p + 1 <= Len(t) /\ t[p + 1] = "*"
    THEN StripComments(t, BlockEnd(t, p + 2), FALSE)
  ELSE <<t[p]>> \o StripComments(t, p + 1, FALSE)

removeJsonComments(t) == StripComments(t, 1, FALSE)

\* Code points of the characters keys are made of.
CharCode(c) ==
  CASE c = " " -> 32 [] c = DQ -> 34 [] c = SQ -> 39 [] c = BS -> 92
    [] IsDigit(c) -> 48 + DigitVal(c)
    [] c = "a" -> 97 [] c = "b" -> 98 [] c = "c" -> 99 [] c = "e" -> 101
    [] c = "f" -> 102 [] c = "l" -> 108 [] c = "n" -> 110 [] c = "r" -> 114
    [] c = "s" -> 115 [] c = "t" -> 116 [] c = "u" -> 117
    [] OTHER -> 127

\* a < b for key strings, compared code point by code point.
RECURSIVE KeyLess(_, _)
KeyLess(a, b) ==
  IF b = <<>> THEN FALSE
  ELSE IF a = <<>> THEN TRUE
  ELSE IF Head(a) = Head(b) THEN KeyLess(Tail(a), Tail(b))
  ELSE CharCode(Head(a)) < CharCode(Head(b))

\* The member list with member m inserted at its place in the order.
RECURSIVE InsertSorted(_, _, _)
InsertSorted(ks, m, order) ==
  IF ks = <<>> THEN <<m>>
  ELSE IF (order = "asc" /\ KeyLess(m.k, Head(ks).k))
          \/ (order = "desc" /\ KeyLess(Head(ks).k, m.k))
       THEN <<m>> \o ks
  ELSE <<Head(ks)>> \o InsertSorted(Tail(ks), m, order)

\* The value with the keys of every object sorted, arrays kept in order.
RECURSIVE SortValue(_, _)
RECURSIVE SortKids(_, _, _, _)
SortValue(v, order) ==
  IF v.t \in {"arr", "obj"}
  THEN [v EXCEPT !.kids = SortKids(v, 1, order, <<>>)]
  ELSE v

SortKids(v, i, order, acc) ==
  IF i > Len(v.kids) THEN acc
  ELSE LET m == [k |-> v.kids[i].k, v |-> SortValue(v.kids[i].v, order)]
       IN SortKids(v, i + 1, order,
                   IF v.t = "obj" THEN InsertSorted(acc, m, order)
                   ELSE Append(acc, m))

sortJson(v, order) == JSONstringify(SortValue(v, order), 4)

(***************************************************************************)
(* jsonrepair (part_000:6), as far as the editor depends on it: valid JSON *)
(* comes back unchanged; JSON5 notation (unquoted keys, single quotes,     *)
(* trailing commas, comments) and missing closing brackets are repaired;   *)
(* anything else makes it throw.  The layout of a repaired text is not     *)
(* modelled: the model yields the compact JSON of the repaired value.      *)
(***************************************************************************)
\* The closing brackets an unfinished text still needs, innermost first
\* (<<"!">> when a closing bracket matches no open one).
RECURSIVE Closers(_, _, _, _)
Closers(t, p, inStr, stack) ==
  IF p > Len(t) THEN (IF inStr THEN <<DQ>> ELSE <<>>) \o stack
  ELSE IF inStr THEN
    IF t[p] = BS THEN Closers(t, p + 2, TRUE, stack)
    ELSE Closers(t, p + 1, t[p] # DQ, stack)
  ELSE IF t[p] = DQ THEN Closers(t, p + 1, TRUE, stack)
  ELSE IF t[p] = "{" THEN Closers(t, p + 1, FALSE, <<"}">> \o stack)
  ELSE IF t[p] = "[" THEN Closers(t, p + 1, FALSE, <<"]">> \o stack)
  ELSE IF t[p] \in {"}", "]"} THEN
    IF stack # <<>> /\ Head(stack) = t[p] THEN Closers(t, p + 1, FALSE, Tail(stack))
    ELSE <<"!">>
  ELSE Closers(t, p + 1, FALSE, stack)

\* ok = FALSE stands for the JSONRepairError it throws.
jsonrepair(t) ==
  LET Closed(closed) ==
        IF closed.ok THEN [ok |-> TRUE, text |-> JSONstringify(closed.v, 0)]
        ELSE [ok |-> FALSE, text |-> <<>>]
      Relaxed(asJson, asJson5) ==
        IF asJson.ok THEN [ok |-> TRUE, text |-> t]
        ELSE IF asJson5.ok
          THEN [ok |-> TRUE, text |-> JSONstringify(asJson5.v, 0)]
        ELSE Closed(JSON5parse(t \o Closers(t, 1, FALSE, <<>>)))
  IN Relaxed(JSONparse(t), JSON5parse(t))

(***************************************************************************)
(* The editor component.  A component state is a record s with the fields  *)
(* of CompState below; each function of the component is an operator from  *)
(* a state to the state it leaves (and its return value, where it has      *)
(* one), so that a handler is the composition of the calls it makes.       *)
(***************************************************************************)
VARIABLES
  editorRef,        \* editorRef.current is set (the editor exists)
  buffer,           \* the text of the editor's model
  undoStack,        \* the newest undo element: <<the text it restores>>, or <<>>
  undoOpen,         \* the newest undo element still takes further edits
  undoTracked,      \* the specification follows the undo history
  modelLanguage,    \* getModel().getLanguageId()
  language,         \* the language prop
  parseJsonError,   \* the parseJsonError state (NoError for null)
  modalOpen,        \* jsonErrorDetailsModel (the error-details modal is open)
  timers,           \* the pending validation timers, oldest first
  timeoutRef,       \* parseJsonErrorTimeoutRef.current: a place in timers, or 0
  sinceEdit,        \* time since the last content change that set a timer,
                    \* up to Delay
  clipboard,        \* what copyText wrote last, and the text it came from
  revealed,         \* the line revealLineInCenter showed last (0: none)
  decoration,       \* the line errorDecorationsRef highlights (0: none)
  lastOp,           \* the handler that ran last, its argument, what it
                    \* returned and the buffer it started from
  effectOn,         \* the mount effect (part_000:203-212) has run and its
                    \* cleanup has not
  mountTimer,       \* the effect's zero-delay timer is pending
  pendingInits,     \* the calls of initializeEditor that wait for
                    \* loader.init()
  editorsCreated    \* how many editors monaco.editor.create has made

editorVars ==
  <<editorRef, buffer, undoStack, undoOpen, undoTracked, modelLanguage, language,
    parseJsonError, modalOpen, timers, timeoutRef, sinceEdit, clipboard,
    revealed, decoration, lastOp, effectOn, mountTimer, pendingInits,
    editorsCreated>>

\* useTabStore (monacoOperationBar.tsx:312-420)
VARIABLES
  tabs,             \* the tabs in their order, each with key, title, content
  activeTabKey,     \* the key of the active tab
  nextKey,          \* the number the next new tab takes its key from
  tabOp             \* the store operation that ran last and its arguments

tabVars == <<tabs, activeTabKey, nextKey, tabOp>>

\* MonacoOperationBar (monacoOperationBar.tsx:27-80)
VARIABLES
  dropdownOpen,     \* isSortDropdownOpen, isMoreDropdownOpen
  dropdownTimers,   \* the pending close timers of each dropdown, oldest first
  dropdownRef,      \* sort/moreDropdownOpenTimeoutRef.current: a place in
                    \* dropdownTimers, or 0
  pointer,          \* the part of each dropdown the pointer is over
  toast             \* the notification the last menu action raised

barVars == <<dropdownOpen, dropdownTimers, dropdownRef, pointer, toast>>

\* DraggableMenu (draggableMenu.tsx:47-79)
VARIABLES
  container,        \* the width and height of containerRef's rectangle
  menuPosition,     \* the menuPosition state: left and top of the menu
  dockedPosition,   \* the dockedPosition state
  isDragging,       \* the isDragging state
  dragStateRef,     \* dragStateRef.current: startX, startY, initialX,
                    \* initialY, dx, dy
  client            \* where the pointer is while a drag lasts

menuVars ==
  <<container, menuPosition, dockedPosition, isDragging, dragStateRef, client>>

vars == <<editorVars, tabVars, barVars, menuVars>>

CompState ==
  [editorRef |-> editorRef, buffer |-> buffer, undoStack |-> undoStack,
   undoOpen |-> undoOpen, undoTracked |-> undoTracked,
   modelLanguage |-> modelLanguage,
   language |-> language, parseJsonError |-> parseJsonError,
   modalOpen |-> modalOpen, timers |-> timers, timeoutRef |-> timeoutRef,
   sinceEdit |-> sinceEdit, clipboard |-> clipboard, revealed |-> revealed,
   decoration |-> decoration, effectOn |-> effectOn,
   mountTimer |-> mountTimer, pendingInits |-> pendingInits,
   editorsCreated |-> editorsCreated]

\* The editor is in state s after handler name, called with arg, returned
\* ret.
EditorBecomes(s, name, arg, ret) ==
  /\ editorRef' = s.editorRef
  /\ buffer' = s.buffer
  /\ undoStack' = s.undoStack
  /\ undoOpen' = s.undoOpen
  /\ undoTracked' = s.undoTracked
  /\ modelLanguage' = s.modelLanguage
  /\ language' = s.language
  /\ parseJsonError' = s.parseJsonError
  /\ modalOpen' = s.modalOpen
  /\ timers' = s.timers
  /\ timeoutRef' = s.timeoutRef
  /\ sinceEdit' = s.sinceEdit
  /\ clipboard' = s.clipboard
  /\ revealed' = s.revealed
  /\ decoration' = s.decoration
  /\ effectOn' = s.effectOn
  /\ mountTimer' = s.mountTimer
  /\ pendingInits' = s.pendingInits
  /\ editorsCreated' = s.editorsCreated
  /\ lastOp' = [name |-> name, arg |-> arg, ret |-> ret, before |-> buffer]

\* The step of the editor alone.
BecomesBy(s, name, arg, ret) ==
  /\ EditorBecomes(s, name, arg, ret)
  /\ UNCHANGED <<tabVars, barVars, menuVars>>

Becomes(s, name, ret) == BecomesBy(s, name, "", ret)

\* A handler's outcome: the state it leaves and what it returned ("true",
\* "false", "void", or "threw" when an exception escaped it).
Out(s, ret) == [s |-> s, ret |-> ret]
Bool(b) == IF b THEN "true" ELSE "false"

Delay == 1000
errorBottomHeight == 45
TickStep == 500

IsJsonLanguage(l) == l \in {"json", "json5"}

\* The pending timers are kept in the order they were set; a handle is the
\* place of its timer in that order, 0 when the timer is no longer pending
\* (or for null).
RemoveAt(seq, i) == SubSeq(seq, 1, i - 1) \o SubSeq(seq, i + 1, Len(seq))

\* clearTimeout(parseJsonErrorTimeoutRef.current)
clearTimeout(s) ==
  IF s.timeoutRef = 0 THEN s
  ELSE [s EXCEPT !.timers = RemoveAt(s.timers, s.timeoutRef), !.timeoutRef = 0]

\* parseJsonErrorTimeoutRef.current = setTimeout(() => editorValueValidate(val), ms)
setTimeout(s, val, ms) ==
  [s EXCEPT !.timers = Append(s.timers, [val |-> val, left |-> ms]),
            !.timeoutRef = Len(s.timers) + 1]

\* The handler without its clearTimeout call.
onDidChangeModelContent_NoClear(s) ==
  LET val == s.buffer
  IN IF IsJsonLanguage(s.modelLanguage)
     THEN [setTimeout(s, val, Delay) EXCEPT !.sinceEdit = 0]
     ELSE s

\* editor.onDidChangeModelContent (part_000:339-354): val is the buffer at
\* the event; under json/json5 the pending timer is cleared and a new one
\* set.
onDidChangeModelContent(s) ==
  LET val == s.buffer
  IN IF IsJsonLanguage(s.modelLanguage)
     THEN [setTimeout(clearTimeout(s), val, Delay) EXCEPT !.sinceEdit = 0]
     ELSE s

\* The undo history.  The model keeps its newest element only (the text one
\* undo step restores): undoStack is <<>> or that one text.
PushUndo(s, before) == IF s.undoTracked THEN <<before>> ELSE <<>>

\* editor.executeEdits("", [{range: full, text}]): the edit lands on the undo
\* stack but no undo stop is pushed, so it joins the newest undo element
\* when that one is still open, and leaves it open.  Replacing nothing by
\* nothing is no edit.
executeEdits(s, text) ==
  IF s.buffer = <<>> /\ text = <<>> THEN s
  ELSE onDidChangeModelContent(
         [s EXCEPT !.buffer = text,
                   !.undoStack = IF s.undoOpen THEN s.undoStack
                                 ELSE PushUndo(s, s.buffer),
                   !.undoOpen = s.undoTracked])

\* setEditorValue (part_000:516-532)
setEditorValue(s, jsonText) ==
  IF ~s.editorRef THEN s ELSE executeEdits(s, jsonText)

\* The validation without its test for a blank text.
editorValueValidate_NoBlank(s, val) ==
  LET Report(jsonErr) ==
        IF jsonErr # NoError
        THEN Out([s EXCEPT !.parseJsonError = jsonErr], "false")
        ELSE Out([s EXCEPT !.parseJsonError = NoError], "true")
  IN Report(IF s.editorRef /\ s.modelLanguage = "json5"
              THEN json5ParseError(val)
            ELSE jsonParseError(val))

\* editorValueValidate (part_000:364-391)
editorValueValidate(s, val) ==
  LET Report(jsonErr) ==
        IF jsonErr # NoError
        THEN Out([s EXCEPT !.parseJsonError = jsonErr], "false")
        ELSE Out([s EXCEPT !.parseJsonError = NoError], "true")
  IN IF Trim(val) = <<>> THEN Out([s EXCEPT !.parseJsonError = NoError], "true")
     ELSE Report(IF s.editorRef /\ s.modelLanguage = "json5"
                   THEN json5ParseError(val)
                 ELSE jsonParseError(val))

\* The editor.action.formatDocument action.  Only the json language has a
\* formatter; it re-indents the document between two undo stops.  Its edits
\* arrive asynchronously; the model applies them at once.
formatDocument(s) ==
  LET r == JSONparse(s.buffer)
      text == JSONstringify(r.v, 4)
  IN IF s.modelLanguage = "json" /\ r.ok /\ text # s.buffer
     THEN [executeEdits([s EXCEPT !.undoOpen = FALSE], text)
             EXCEPT !.undoOpen = FALSE]
     ELSE s

\* editorFormat (part_000:408-439)
editorFormat(s) ==
  IF ~s.editorRef THEN Out(s, "false")
  ELSE IF s.buffer = <<>> THEN Out(s, "false")
  ELSE IF s.language = "json5" THEN
    LET Formatted(json5Obj) ==
          IF json5Obj.ok
          THEN Out(setEditorValue(s, JSON5stringify(json5Obj.v, 2)), "true")
          ELSE Out(s, "false")
    IN Formatted(JSON5parse(s.buffer))
  ELSE Out(formatDocument(s), "true")

\* formatValidate (part_000:394-406)
formatValidate(s) ==
  IF ~s.editorRef THEN Out(s, "false")
  ELSE LET Validated(v) ==
             IF v.ret # "true" THEN Out(v.s, "false") ELSE editorFormat(v.s)
       IN Validated(editorValueValidate(s, s.buffer))

\* highlightErrorLine (part_000:442-474)
highlightErrorLine(s, lineNumber) ==
  IF ~s.editorRef THEN Out(s, "false")
  ELSE Out([s EXCEPT !.revealed = lineNumber, !.decoration = lineNumber], "true")

\* The handler refusing a null error only.
goToErrorLine_NullOnly(s) ==
  IF s.parseJsonError = NoError
  THEN Out(s, "false")
  ELSE Out(highlightErrorLine([s EXCEPT !.modalOpen = FALSE],
                              s.parseJsonError.line).s, "true")

\* goToErrorLine (part_000:477-487): ret is "false" for the error toast,
\* "true" for the success toast.
goToErrorLine(s) ==
  IF s.parseJsonError = NoError \/ s.parseJsonError.line <= 0
  THEN Out(s, "false")
  ELSE Out(highlightErrorLine([s EXCEPT !.modalOpen = FALSE],
                              s.parseJsonError.line).s, "true")

\* The handler closing the modal and clearing the error before it repairs.
autoFix_CloseFirst(s) ==
  LET closed == [s EXCEPT !.modalOpen = FALSE, !.parseJsonError = NoError]
      Fixed(repaired) ==
        IF ~repaired.ok THEN Out(closed, "false")
        ELSE Out(setEditorValue(closed, repaired.text), "true")
      Fix(jsonText) ==
        IF jsonText = <<>> THEN Out(s, "false") ELSE Fixed(jsonrepair(jsonText))
  IN Fix(IF s.editorRef THEN s.buffer ELSE <<>>)

\* autoFix (part_000:489-513)
autoFix(s) ==
  LET Fixed(repaired) ==
        IF ~repaired.ok THEN Out(s, "false")
        ELSE Out([setEditorValue(s, repaired.text)
                    EXCEPT !.modalOpen = FALSE, !.parseJsonError = NoError],
                 "true")
      Fix(jsonText) ==
        IF jsonText = <<>> THEN Out(s, "false") ELSE Fixed(jsonrepair(jsonText))
  IN Fix(IF s.editorRef THEN s.buffer ELSE <<>>)

\* copyText (part_000:535-537)
copyText(s, kind, text) ==
  [s EXCEPT !.clipboard = [kind |-> kind, text |-> text, from |-> s.buffer]]

\* The unescape without its test for an object or array.
formatModelByUnEscapeJson_AnyValue(s, jsonText) ==
  LET Object(unescapedJsonObject) ==
        IF ~unescapedJsonObject.ok THEN Out(s, "not an escaped JSON string")
        ELSE Out(setEditorValue(s, JSONstringify(unescapedJsonObject.v, 4)), "")
      String(unescapedJson) ==
        IF ~unescapedJson.ok THEN Out(s, "not an escaped JSON string")
        ELSE Object(JSONparse(unescapedJson.v.s))
  IN IF jsonText = <<>> THEN Out(s, "no data")
     ELSE String(JSONparse(<<DQ>> \o jsonText \o <<DQ>>))

\* formatModelByUnEscapeJson (part_000:541-568): the message it returns,
\* "" for success.
formatModelByUnEscapeJson(s, jsonText) ==
  LET Object(unescapedJsonObject) ==
        IF ~unescapedJsonObject.ok THEN Out(s, "not an escaped JSON string")
        ELSE IF ~isArrayOrObject(unescapedJsonObject.v)
          THEN Out(s, "not valid JSON data")
        ELSE Out(setEditorValue(s, JSONstringify(unescapedJsonObject.v, 4)), "")
      String(unescapedJson) ==
        IF ~unescapedJson.ok THEN Out(s, "not an escaped JSON string")
        ELSE Object(JSONparse(unescapedJson.v.s))
  IN IF jsonText = <<>> THEN Out(s, "no data")
     ELSE String(JSONparse(<<DQ>> \o jsonText \o <<DQ>>))

(***************************************************************************)
(* The operations exposed through the ref (part_000:571-726)               *)
(***************************************************************************)
\* The copy putting the text itself on the clipboard for 'escape'.
copy_EscapeRaw(s, type) ==
  LET val == s.buffer
      Write(s1, compressed) ==
        Out(setEditorValue(copyText(s1, type, compressed), compressed), "true")
      Compress(s1, parsed) ==
        IF ~parsed.ok THEN Out(s1, "threw")
        ELSE Write(s1, JSONstringify(parsed.v, 0))
      Validated(v) ==
        IF v.ret # "true" THEN Out(v.s, "false")
        ELSE IF type = "compress" THEN Compress(v.s, JSONparse(val))
        ELSE Out(copyText(v.s, type, val), "true")
  IN IF ~s.editorRef THEN Out(s, "false")
     ELSE IF type = "default" THEN Out(copyText(s, type, val), "true")
     ELSE IF Trim(val) = <<>> THEN Out(s, "false")
     ELSE Validated(editorValueValidate(s, val))

\* copy (part_000:585-625).  JSON.parse(val) is outside any try block.
copy(s, type) ==
  LET val == s.buffer
      Write(s1, compressed) ==
        Out(setEditorValue(copyText(s1, type, compressed), compressed), "true")
      Compress(s1, parsed) ==
        IF ~parsed.ok THEN Out(s1, "threw")
        ELSE Write(s1, JSONstringify(parsed.v, 0))
      Validated(v) ==
        IF v.ret # "true" THEN Out(v.s, "false")
        ELSE IF type = "compress" THEN Compress(v.s, JSONparse(val))
        ELSE Out(copyText(v.s, type, escapeJson(val)), "true")
  IN IF ~s.editorRef THEN Out(s, "false")
     ELSE IF type = "default" THEN Out(copyText(s, type, val), "true")
     ELSE IF Trim(val) = <<>> THEN Out(s, "false")
     ELSE Validated(editorValueValidate(s, val))

\* format (part_000:626-628)
format(s) == formatValidate(s)

\* validate (part_000:629-641)
validate(s) ==
  IF ~s.editorRef THEN Out(s, "false")
  ELSE IF Trim(s.buffer) = <<>> THEN Out(s, "true")
  ELSE editorValueValidate(s, s.buffer)

\* clear (part_000:642-650)
clear(s) ==
  IF s.editorRef THEN Out(setEditorValue(s, <<>>), "true") ELSE Out(s, "false")

\* The sort that sorts ascending whatever order is asked for.
fieldSort_AlwaysAsc(s, type) ==
  LET val == s.buffer
      Sort(s1, jsonObj) ==
        IF ~jsonObj.ok THEN Out(s1, "threw")
        ELSE Out(setEditorValue(s1, sortJson(jsonObj.v, "asc")), "true")
      Validated(v) ==
        IF v.ret # "true" THEN Out(v.s, "false") ELSE Sort(v.s, JSONparse(val))
  IN IF ~s.editorRef THEN Out(s, "false")
     ELSE Validated(editorValueValidate(s, val))

\* fieldSort (part_000:651-670).  JSON.parse(val) is outside any try block.
fieldSort(s, type) ==
  LET val == s.buffer
      Sort(s1, jsonObj) ==
        IF ~jsonObj.ok THEN Out(s1, "threw")
        ELSE Out(setEditorValue(s1, sortJson(jsonObj.v, type)), "true")
      Validated(v) ==
        IF v.ret # "true" THEN Out(v.s, "false") ELSE Sort(v.s, JSONparse(val))
  IN IF ~s.editorRef THEN Out(s, "false")
     ELSE Validated(editorValueValidate(s, val))

\* moreAction (part_000:672-697)
moreAction(s, key) ==
  LET val == s.buffer
      Unescaped(errorMsg) ==
        IF errorMsg.ret # "" THEN Out(errorMsg.s, "false")
        ELSE Out(errorMsg.s, "true")
  IN IF ~s.editorRef THEN Out(s, "false")
     ELSE IF key = "unescape" THEN Unescaped(formatModelByUnEscapeJson(s, val))
     ELSE Out(setEditorValue(s, removeJsonComments(val)), "true")

\* saveFile (part_000:698-718)
saveFile(s) ==
  LET val == IF s.editorRef THEN s.buffer ELSE <<>>
  IN IF Trim(val) = <<>> THEN Out(s, "false") ELSE Out(s, "true")

\* updateValue (part_000:572-574)
updateValue(s, value) == Out(setEditorValue(s, value), "void")

\* setLanguage (part_000:719-725) and monaco.editor.setModelLanguage
setLanguage(s, newLanguage) ==
  Out(IF s.editorRef THEN [s EXCEPT !.modelLanguage = newLanguage] ELSE s, "void")

\* handleLanguageChange (part_000:141-153), the settings menu's handler
handleLanguageChange(s, newLanguage) ==
  LET Formatted(f) ==
        IF f.ret = "true" THEN Out([f.s EXCEPT !.parseJsonError = NoError], "void")
        ELSE Out(f.s, "void")
  IN Formatted(editorFormat(setLanguage(s, newLanguage).s))

\* handleReset (part_000:156-161)
handleReset(s) == handleLanguageChange(s, "json")

\* The effect on the language prop (part_000:184-196): a new model holding
\* the value prop replaces the editor's model, with its own undo history.
languageEffect(s, newLanguage, value) ==
  LET s1 == [s EXCEPT !.language = newLanguage,
                      !.parseJsonError =
                         IF IsJsonLanguage(newLanguage) THEN @ ELSE NoError]
  IN IF s.editorRef
     THEN [s1 EXCEPT !.buffer = value, !.modelLanguage = newLanguage,
                     !.undoStack = <<>>, !.undoOpen = FALSE]
     ELSE s1

\* The banner's height (part_000:757-759) and the height getEditorHeight
\* gives the editor area for a numeric height prop (part_000:97-104).
bannerHeight(s) ==
  IF s.parseJsonError # NoError /\ s.parseJsonError.line > 0
  THEN errorBottomHeight ELSE 0

getEditorHeight(s, height) ==
  IF s.parseJsonError # NoError THEN height - errorBottomHeight ELSE height

(***************************************************************************)
(* Inputs                                                                  *)
(***************************************************************************)
T_Empty == <<>>
T_Blank == <<" ">>
T_Obj   == <<"{", DQ, "b", DQ, ":", "1", ",", DQ, "a", DQ, ":", "2", "}">>
T_Arr   == <<"[", DQ, "a", BS, DQ, DQ, "]">>
T_Trunc == <<"{", DQ, "a", DQ, ":", "1">>
T_Five  == <<"{", "a", ":", "1", ",", "}">>
T_Line2 == <<"[", "1", ",", NL, "}">>
T_Junk  == <<"}">>
T_Num   == <<"1">>

Languages == {"json", "json5", "yaml"}
EditKinds == {"typing", "typing after a stop", "paste"}

(***************************************************************************)
(* The tab store, useTabStore (monacoOperationBar.tsx:312-420).  A key is  *)
(* the decimal numeral of the nextKey it was made from.                    *)
(***************************************************************************)
\* `${state.nextKey}` and `New Tab ${newTabKey}`
TabKey(n) == NumText(n)
NewTabTitle(n) == <<"N", "e", "w", " ", "T", "a", "b", " ">> \o TabKey(n)

\* The default tab: key "1", title "New Tab 1", the home content.
defaultTab ==
  [key |-> TabKey(1), title |-> NewTabTitle(1), content |-> <<"(home)">>]

\* The store's initial state (312-315).
TabStoreInit ==
  /\ tabs = <<defaultTab>>
  /\ activeTabKey = TabKey(1)
  /\ nextKey = 2
  /\ tabOp = [name |-> "none", key |-> <<>>, title |-> <<>>]

\* The store operation name has run with these arguments.
TabOp(name, key, title) ==
  tabOp' = [name |-> name, key |-> key, title |-> title]

\* The largest number a key is made from.
MaxTabKey == 4

\* tabs.filter(keep), tabs.findIndex(tab => tab.key === key) (1-based, 0
\* for -1) and tabs.slice(from, to) with 1-based inclusive bounds.
RECURSIVE FilterTabs(_, _)
FilterTabs(ts, key) ==
  IF ts = <<>> THEN <<>>
  ELSE (IF Head(ts).key # key THEN <<Head(ts)>> ELSE <<>>)
       \o FilterTabs(Tail(ts), key)

FindIndex(ts, key) ==
  IF \E i \in 1..Len(ts) : ts[i].key = key
  THEN CHOOSE i \in 1..Len(ts) :
         ts[i].key = key /\ \A j \in 1..(i - 1) : ts[j].key # key
  ELSE 0

\* activeTab (316-322): the tab with the active key, tabs[0] when there is
\* none, undefined when tabs is empty too.
undefined == [key |-> <<"undefined">>, title |-> <<>>, content |-> <<>>]

activeTab ==
  IF FindIndex(tabs, activeTabKey) # 0
  THEN tabs[FindIndex(tabs, activeTabKey)]
  ELSE IF tabs # <<>> THEN tabs[1] ELSE undefined

\* addTab without the increment of nextKey (the length of tabs is capped
\* in its place).
addTab_ReuseKey ==
  /\ nextKey <= MaxTabKey
  /\ Len(tabs) <= MaxTabKey
  /\ tabs' = Append(tabs, [key |-> TabKey(nextKey),
                           title |-> NewTabTitle(nextKey),
                           content |-> NewTabTitle(nextKey) \o <<" (content)">>])
  /\ activeTabKey' = TabKey(nextKey)
  /\ nextKey' = nextKey
  /\ TabOp("addTab", <<>>, <<>>)
  /\ UNCHANGED <<editorVars, barVars, menuVars>>

\* addTab (324-339)
addTab ==
  /\ nextKey <= MaxTabKey
  /\ tabs' = Append(tabs, [key |-> TabKey(nextKey),
                           title |-> NewTabTitle(nextKey),
                           content |-> NewTabTitle(nextKey) \o <<" (content)">>])
  /\ activeTabKey' = TabKey(nextKey)
  /\ nextKey' = nextKey + 1
  /\ TabOp("addTab", <<>>, <<>>)
  /\ UNCHANGED <<editorVars, barVars, menuVars>>

\* renameTab without the test for a blank title.
renameTab_NoBlankTest(key, newTitle) ==
  /\ tabs' = [i \in 1..Len(tabs) |->
               IF tabs[i].key = key
               THEN [tabs[i] EXCEPT !.title = Trim(newTitle)]
               ELSE tabs[i]]
  /\ TabOp("renameTab", key, newTitle)
  /\ UNCHANGED <<activeTabKey, nextKey, editorVars, barVars, menuVars>>

\* renameTab (340-350)
renameTab(key, newTitle) ==
  /\ IF Trim(newTitle) = <<>> THEN tabs' = tabs
     ELSE tabs' = [i \in 1..Len(tabs) |->
                     IF tabs[i].key = key
                     THEN [tabs[i] EXCEPT !.title = Trim(newTitle)]
                     ELSE tabs[i]]
  /\ TabOp("renameTab", key, newTitle)
  /\ UNCHANGED <<activeTabKey, nextKey, editorVars, barVars, menuVars>>

\* The reset without the reset of nextKey.
ResetTabs_KeepNextKey ==
  /\ tabs' = <<defaultTab>>
  /\ activeTabKey' = TabKey(1)
  /\ nextKey' = nextKey
  /\ UNCHANGED <<editorVars, barVars, menuVars>>

\* The state closeAllTabs sets (407-419).
ResetTabs ==
  /\ tabs' = <<defaultTab>>
  /\ activeTabKey' = TabKey(1)
  /\ nextKey' = 2
  /\ UNCHANGED <<editorVars, barVars, menuVars>>

\* closeAllTabs (407-419)
closeAllTabs == ResetTabs /\ TabOp("closeAllTabs", <<>>, <<>>)

\* closeTab that leaves activeTabKey as it is.
closeTab_KeepActive(keyToRemove) ==
  /\ TabOp("closeTab", keyToRemove, <<>>)
  /\ IF Len(tabs) = 1 THEN ResetTabs
     ELSE
       /\ tabs' = FilterTabs(tabs, keyToRemove)
       /\ UNCHANGED <<activeTabKey, nextKey, editorVars, barVars, menuVars>>

\* closeTab (351-367)
closeTab(keyToRemove) ==
  /\ TabOp("closeTab", keyToRemove, <<>>)
  /\ IF Len(tabs) = 1 THEN ResetTabs
     ELSE
       /\ tabs' = FilterTabs(tabs, keyToRemove)
       /\ activeTabKey' =
            IF keyToRemove = activeTabKey
            THEN (IF tabs' # <<>> THEN tabs'[Len(tabs')].key ELSE TabKey(1))
            ELSE activeTabKey
       /\ UNCHANGED <<nextKey, editorVars, barVars, menuVars>>

\* setActiveTab (368)
setActiveTab(key) ==
  /\ TabOp("setActiveTab", key, <<>>)
  /\ activeTabKey' = key
  /\ UNCHANGED <<tabs, nextKey, editorVars, barVars, menuVars>>

\* closeOtherTabs (370-379)
closeOtherTabs(currentKey) ==
  /\ TabOp("closeOtherTabs", currentKey, <<>>)
  /\ tabs' = IF FindIndex(tabs, currentKey) # 0
             THEN <<tabs[FindIndex(tabs, currentKey)]>> ELSE <<>>
  /\ activeTabKey' = currentKey
  /\ UNCHANGED <<nextKey, editorVars, barVars, menuVars>>

\* closeLeftTabs (382-394): slice(-1) keeps the last tab.
closeLeftTabs(currentKey) ==
  /\ TabOp("closeLeftTabs", currentKey, <<>>)
  /\ tabs' = IF FindIndex(tabs, currentKey) # 0
             THEN SubSeq(tabs, FindIndex(tabs, currentKey), Len(tabs))
             ELSE IF tabs = <<>> THEN <<>>
             ELSE <<tabs[Len(tabs)]>>
  /\ activeTabKey' = currentKey
  /\ UNCHANGED <<nextKey, editorVars, barVars, menuVars>>

\* closeRightTabs (397-405): slice(0, 0) keeps nothing.
closeRightTabs(currentKey) ==
  /\ TabOp("closeRightTabs", currentKey, <<>>)
  /\ tabs' = SubSeq(tabs, 1, FindIndex(tabs, currentKey))
  /\ activeTabKey' = currentKey
  /\ UNCHANGED <<nextKey, editorVars, barVars, menuVars>>

\* The keys and titles the callers may pass.
KeyArgs == {TabKey(n) : n \in 1..MaxTabKey}
TitleArgs == {<<>>, <<" ">>, <<"x">>, <<" ", "x", " ">>}

(***************************************************************************)
(* The hover dropdowns of the operation bar (monacoOperationBar.tsx:45-78, *)
(* 154-279).  d is "sort" or "more"; both dropdowns run the same code on   *)
(* their own state and timer handle.                                       *)
(***************************************************************************)
Dropdowns == {"sort", "more"}
dropdownTimeout == 300
BarTickStep == 100

BarInit ==
  /\ dropdownOpen = [d \in Dropdowns |-> FALSE]
  /\ dropdownTimers = [d \in Dropdowns |-> <<>>]
  /\ dropdownRef = [d \in Dropdowns |-> 0]
  /\ pointer = [d \in Dropdowns |-> "out"]
  /\ toast = "none"

\* The timers and the handle of dropdown d become those of t.
TimerState(d, t) ==
  /\ dropdownTimers' = [dropdownTimers EXCEPT ![d] = t.timers]
  /\ dropdownRef' = [dropdownRef EXCEPT ![d] = t.timeoutRef]

\* showSortDropdown / showMoreDropdown without the clearTimeout call.
showDropdown_NoClear(d) ==
  /\ TimerState(d, [timers |-> dropdownTimers[d], timeoutRef |-> dropdownRef[d]])
  /\ dropdownOpen' = [dropdownOpen EXCEPT ![d] = TRUE]

\* showSortDropdown (57-60), showMoreDropdown (69-72)
showDropdown(d) ==
  /\ TimerState(d, clearTimeout([timers |-> dropdownTimers[d],
                                 timeoutRef |-> dropdownRef[d]]))
  /\ dropdownOpen' = [dropdownOpen EXCEPT ![d] = TRUE]

\* unShowSortDropdown (61-66), unShowMoreDropdown (73-78)
unShowDropdown(d) ==
  /\ TimerState(d, setTimeout(clearTimeout([timers |-> dropdownTimers[d],
                                            timeoutRef |-> dropdownRef[d]]),
                              <<>>, dropdownTimeout))
  /\ UNCHANGED dropdownOpen

\* A step of the operation bar that leaves the editor alone.
BarStep(name, d) ==
  /\ EditorBecomes(CompState, name, d, "void")
  /\ UNCHANGED <<tabVars, menuVars>>

\* onMouseEnter of the trigger or of the menu (163, 190, 233, 263).  The
\* pointer is over one thing at a time, and the menu is there while the
\* dropdown is open.
MouseEnter(d, part) ==
  /\ \A e \in Dropdowns : pointer[e] = "out"
  /\ part = "menu" => dropdownOpen[d]
  /\ pointer' = [pointer EXCEPT ![d] = part]
  /\ showDropdown(d)
  /\ UNCHANGED toast
  /\ BarStep("showDropdown", d)

\* onMouseLeave of the trigger or of the menu (164, 191, 234, 264)
MouseLeave(d) ==
  /\ pointer[d] # "out"
  /\ pointer' = [pointer EXCEPT ![d] = "out"]
  /\ unShowDropdown(d)
  /\ UNCHANGED toast
  /\ BarStep("unShowDropdown", d)

\* A close timer whose delay has passed runs its callback (63-65, 75-77);
\* the menu goes away from under the pointer.
DropdownTimerFire(d) ==
  /\ \E i \in 1..Len(dropdownTimers[d]) :
       /\ dropdownTimers[d][i].left = 0
       /\ TimerState(d, [timers |-> RemoveAt(dropdownTimers[d], i),
                         timeoutRef |->
                           IF dropdownRef[d] = i THEN 0
                           ELSE IF dropdownRef[d] > i THEN dropdownRef[d] - 1
                           ELSE dropdownRef[d]])
  /\ dropdownOpen' = [dropdownOpen EXCEPT ![d] = FALSE]
  /\ pointer' = [pointer EXCEPT ![d] = IF @ = "menu" THEN "out" ELSE @]
  /\ UNCHANGED toast
  /\ BarStep("closeDropdown", d)

\* BarTickStep of time passes for the close timers; a timer that is due
\* runs first.
BarTick ==
  /\ \E d \in Dropdowns : dropdownTimers[d] # <<>>
  /\ \A d \in Dropdowns : \A i \in 1..Len(dropdownTimers[d]) :
       dropdownTimers[d][i].left > 0
  /\ dropdownTimers' =
       [d \in Dropdowns |->
          [i \in 1..Len(dropdownTimers[d]) |->
             [dropdownTimers[d][i] EXCEPT
                !.left = IF @ > BarTickStep THEN @ - BarTickStep ELSE 0]]]
  /\ UNCHANGED <<dropdownOpen, dropdownRef, pointer, toast>>
  /\ BarStep("tick", "")

\* onAction of the sort menu (176-189), on an item under the pointer;
\* onFieldSort is the editor's fieldSort.  When fieldSort throws, the rest of
\* the handler does not run.
onAction(key) ==
  /\ dropdownOpen["sort"]
  /\ pointer["sort"] = "menu"
  /\ LET Act(out) ==
           /\ EditorBecomes(out.s, "onAction", key, out.ret)
           /\ IF out.ret = "threw"
              THEN UNCHANGED barVars
              ELSE /\ toast' = "success"
                   /\ dropdownOpen' = [dropdownOpen EXCEPT !["sort"] = FALSE]
                   /\ pointer' = [pointer EXCEPT !["sort"] = "out"]
                   /\ UNCHANGED <<dropdownTimers, dropdownRef>>
     IN Act(fieldSort(CompState, key))
  /\ UNCHANGED <<tabVars, menuVars>>

(***************************************************************************)
(* The floating settings menu (draggableMenu.tsx).  Lengths are pixels.    *)
(***************************************************************************)
\* offsetWidth and offsetHeight of the menu: its 36 px button (430).
menuSize == 36

\* The state after the effect that places the menu (81-102).
MenuInit ==
  /\ container = [w |-> 300, h |-> 300]
  /\ menuPosition = [x |-> 300 - menuSize \div 2, y |-> 300 - menuSize - 80]
  /\ dockedPosition = "right"
  /\ isDragging = FALSE
  /\ dragStateRef = [startX |-> 0, startY |-> 0, initialX |-> 0,
                     initialY |-> 0, dx |-> 0, dy |-> 0]
  /\ client = [x |-> 0, y |-> 0]

MathMin(a, b) == IF a <= b THEN a ELSE b
MathMax(a, b) == IF a >= b THEN a ELSE b

\* determineClosestEdge (196-218)
determineClosestEdge(x, y) ==
  LET distToLeft == x
      distToRight == container.w - (x + menuSize)
      distToTop == y
      distToBottom == container.h - (y + menuSize)
      minDist == MathMin(MathMin(distToLeft, distToRight),
                         MathMin(distToTop, distToBottom))
  IN IF minDist = distToLeft THEN "left"
     ELSE IF minDist = distToRight THEN "right"
     ELSE IF minDist = distToTop THEN "top"
     ELSE "bottom"

\* startDrag (154-168)
startDrag(clientX, clientY) ==
  /\ ~isDragging
  /\ isDragging' = TRUE
  /\ dragStateRef' = [dragStateRef EXCEPT !.startX = clientX,
                                          !.startY = clientY,
                                          !.initialX = menuPosition.x,
                                          !.initialY = menuPosition.y]
  /\ client' = [x |-> clientX, y |-> clientY]
  /\ UNCHANGED <<container, menuPosition, dockedPosition>>
  /\ UNCHANGED <<editorVars, tabVars, barVars>>

\* handleDrag (171-185), on a mousemove
handleDrag(clientX, clientY) ==
  /\ isDragging
  /\ dragStateRef' = [dragStateRef EXCEPT !.dx = clientX - dragStateRef.startX,
                                          !.dy = clientY - dragStateRef.startY]
  /\ client' = [x |-> clientX, y |-> clientY]
  /\ UNCHANGED <<container, menuPosition, dockedPosition, isDragging>>
  /\ UNCHANGED <<editorVars, tabVars, barVars>>

\* finishDrag (221-304), on the mouseup
finishDrag ==
  /\ isDragging
  /\ LET newX == dragStateRef.initialX + dragStateRef.dx
         newY == dragStateRef.initialY + dragStateRef.dy
         alongX == MathMin(container.w - menuSize, MathMax(0, newX))
         alongY == MathMin(container.h - menuSize, MathMax(0, newY))
         Dock(closestEdge) ==
           /\ menuPosition' =
                CASE closestEdge = "left" ->
                       [x |-> 0 - menuSize \div 2, y |-> alongY]
                  [] closestEdge = "right" ->
                       [x |-> container.w - menuSize \div 2, y |-> alongY]
                  [] closestEdge = "top" ->
                       [x |-> alongX, y |-> 0 - menuSize \div 2]
                  [] OTHER ->
                       [x |-> alongX, y |-> container.h - menuSize \div 2]
           /\ dockedPosition' = closestEdge
     IN Dock(determineClosestEdge(newX, newY))
  /\ isDragging' = FALSE
  /\ UNCHANGED <<container, dragStateRef, client>>
  /\ UNCHANGED <<editorVars, tabVars, barVars>>

\* handleResize (111-143), after the container's rectangle has become
\* width by height
handleResize(width, height) ==
  /\ container' = [w |-> width, h |-> height]
  /\ menuPosition' =
       CASE dockedPosition = "right" ->
              [menuPosition EXCEPT !.x = width - menuSize \div 2]
         [] dockedPosition = "left" ->
              [menuPosition EXCEPT !.x = 0 - menuSize \div 2]
         [] dockedPosition = "bottom" ->
              [menuPosition EXCEPT !.y = height - menuSize \div 2]
         [] dockedPosition = "top" ->
              [menuPosition EXCEPT !.y = 0 - menuSize \div 2]
         [] OTHER ->
              [x |-> MathMin(width - menuSize \div 4, MathMax(0, menuPosition.x)),
               y |-> MathMin(height - menuSize \div 2, MathMax(0, menuPosition.y))]
  /\ UNCHANGED <<dockedPosition, isDragging, dragStateRef, client>>
  /\ UNCHANGED <<editorVars, tabVars, barVars>>

(***************************************************************************)
(* Actions.  T is the set of texts the environment may supply.             *)
(***************************************************************************)
Start(tracked) ==
  /\ editorRef = FALSE
  /\ buffer = <<>>
  /\ undoStack = <<>>
  /\ undoOpen = FALSE
  /\ undoTracked = tracked
  /\ modelLanguage = "json"
  /\ language \in {"json", "json5"}
  /\ parseJsonError = NoError
  /\ modalOpen = FALSE
  /\ timers = <<>>
  /\ timeoutRef = 0
  /\ sinceEdit = Delay
  /\ clipboard = [kind |-> "none", text |-> <<>>, from |-> <<>>]
  /\ revealed = 0
  /\ decoration = 0
  /\ lastOp = [name |-> "none", arg |-> "", ret |-> "void", before |-> <<>>]
  /\ effectOn = FALSE
  /\ mountTimer = FALSE
  /\ pendingInits = 0
  /\ editorsCreated = 0
  /\ TabStoreInit
  /\ BarInit
  /\ MenuInit

\* initializeEditor (part_000:215-361): the editor is created on the value
\* and language props.
InitializeEditor(T) ==
  /\ ~editorRef
  /\ \E value \in T :
       Becomes([CompState EXCEPT !.editorRef = TRUE, !.buffer = value,
                                 !.modelLanguage = language,
                                 !.editorsCreated = @ + 1],
               "initializeEditor", "void")

\* The calls of initializeEditor that may wait for loader.init() at once.
MaxInits == 2

\* The mount effect (part_000:203-212) sets a zero-delay timer for
\* initializeEditor.
MountEffect ==
  /\ ~effectOn
  /\ Becomes([CompState EXCEPT !.effectOn = TRUE, !.mountTimer = TRUE],
             "mountEffect", "void")

\* The effect's cleanup (209-211) clears the timer, which cancels it when it
\* has not fired yet.
MountCleanup ==
  /\ effectOn
  /\ Becomes([CompState EXCEPT !.effectOn = FALSE, !.mountTimer = FALSE],
             "mountCleanup", "void")

\* The timer fires: initializeEditor (215-232) returns when editorRef.current
\* is set, and waits for loader.init() otherwise.
InitializeEditorCall ==
  /\ mountTimer
  /\ pendingInits < MaxInits
  /\ Becomes([CompState EXCEPT !.mountTimer = FALSE,
                               !.pendingInits = IF editorRef THEN @ ELSE @ + 1],
             "initializeEditorCall", "void")

\* loader.init() has resolved for one waiting call, which goes on
\* (232-361): when containerRef.current is set (the component is mounted)
\* it creates an editor on the value and language props and assigns it to
\* editorRef.current.
InitializeEditorResume(T) ==
  /\ pendingInits > 0
  /\ \E value \in T :
       Becomes(IF effectOn
               THEN [CompState EXCEPT !.pendingInits = @ - 1,
                                      !.editorRef = TRUE,
                                      !.buffer = value,
                                      !.modelLanguage = language,
                                      !.editorsCreated = @ + 1]
               ELSE [CompState EXCEPT !.pendingInits = @ - 1],
               "initializeEditorResume", "void")

\* The text after a user's edit, and its place in the undo history: typing
\* joins the open undo element or starts a new one after an undo stop;
\* pasting has an undo stop before and after.
userEdit(s, text, kind) ==
  LET join == kind = "typing" /\ s.undoOpen
  IN onDidChangeModelContent(
       [s EXCEPT !.buffer = text,
                 !.undoStack = IF join THEN @ ELSE PushUndo(s, s.buffer),
                 !.undoOpen = s.undoTracked /\ kind # "paste"])

UserEdit(T) ==
  /\ editorRef
  /\ \E text \in T, kind \in EditKinds :
       /\ text # buffer
       /\ Becomes(userEdit(CompState, text, kind), "edit", "void")

\* Ctrl+V over the whole text.
Paste ==
  /\ editorRef
  /\ clipboard.kind # "none"
  /\ clipboard.text # buffer
  /\ Becomes(userEdit(CompState, clipboard.text, "paste"), "paste", "void")

\* Ctrl+Z: the newest undo element is reverted.
undo(s) ==
  onDidChangeModelContent(
    [s EXCEPT !.buffer = s.undoStack[Len(s.undoStack)],
              !.undoStack = SubSeq(s.undoStack, 1, Len(s.undoStack) - 1),
              !.undoOpen = FALSE])

Undo ==
  /\ editorRef
  /\ undoStack # <<>>
  /\ Becomes(undo(CompState), "undo", "void")

Done(name, out) == Becomes(out.s, name, out.ret)
DoneBy(name, arg, out) == BecomesBy(out.s, name, arg, out.ret)

Copy == \E type \in {"default", "compress", "escape"} :
          Done("copy", copy(CompState, type))
Format == Done("format", format(CompState))
Validate == Done("validate", validate(CompState))
Clear == Done("clear", clear(CompState))
FieldSort == \E type \in {"asc", "desc"} :
               DoneBy("fieldSort", type, fieldSort(CompState, type))
MoreActionUnescape == Done("unescape", moreAction(CompState, "unescape"))
MoreActionDelComment == Done("del_comment", moreAction(CompState, "del_comment"))
SaveFile == Done("saveFile", saveFile(CompState))
UpdateValue(T) == \E value \in T :
                    Done("updateValue", updateValue(CompState, value))
SetLanguage == \E l \in Languages \ {modelLanguage} :
                 Done("setLanguage", setLanguage(CompState, l))
HandleLanguageChange ==
  \E l \in Languages :
    Done("handleLanguageChange", handleLanguageChange(CompState, l))
HandleReset == Done("handleReset", handleReset(CompState))

LanguageProp(T) ==
  \E l \in Languages \ {language}, value \in T :
    Becomes(languageEffect(CompState, l, value), "languageEffect", "void")

\* A validation timer whose delay has passed runs its callback
\* (part_000:349-351).
TimerFire ==
  \E i \in 1..Len(timers) :
    /\ timers[i].left = 0
    /\ LET ref == IF timeoutRef = i THEN 0
                  ELSE IF timeoutRef > i THEN timeoutRef - 1 ELSE timeoutRef
           s == [CompState EXCEPT !.timers = RemoveAt(@, i), !.timeoutRef = ref]
       IN Done("timer", editorValueValidate(s, timers[i].val))

\* TickStep of time passes; a timer that is due runs first.
Tick ==
  /\ \A i \in 1..Len(timers) : timers[i].left > 0
  /\ timers # <<>> \/ sinceEdit < Delay
  /\ LET down(n) == IF n > TickStep THEN n - TickStep ELSE 0
         up(n) == IF n + TickStep < Delay THEN n + TickStep ELSE Delay
     IN Becomes([CompState EXCEPT
                   !.timers = [i \in 1..Len(timers) |->
                                 [timers[i] EXCEPT !.left = down(@)]],
                   !.sinceEdit = up(@)],
                "tick", "void")

\* The banner's buttons can be pressed while the banner shows, the modal's
\* while the modal is open (part_000:774-809).
OpenModal ==
  /\ bannerHeight(CompState) > 0
  /\ ~modalOpen
  /\ Becomes([CompState EXCEPT !.modalOpen = TRUE], "openModal", "void")

CloseModal ==
  /\ modalOpen
  /\ Becomes([CompState EXCEPT !.modalOpen = FALSE], "closeModal", "void")

GoToErrorLine ==
  /\ bannerHeight(CompState) > 0 \/ modalOpen
  /\ Done("goToErrorLine", goToErrorLine(CompState))

AutoFix ==
  /\ bannerHeight(CompState) > 0 \/ modalOpen
  /\ Done("autoFix", autoFix(CompState))

\* The 5 s timer of highlightErrorLine clears the highlight
\* (part_000:467-471).
ClearHighlight ==
  /\ decoration # 0
  /\ Becomes([CompState EXCEPT !.decoration = 0], "clearHighlight", "void")

(***************************************************************************)
(* Specifications.  Each one lets the environment use the part of the      *)
(* component some properties are about.                                    *)
(***************************************************************************)
Init == Start(FALSE)

\* The operations of the ref on blank, valid, invalid and JSON5-only text.
OpTexts == {T_Empty, T_Blank, T_Obj, T_Trunc, T_Five}

Next ==
  \/ InitializeEditor(OpTexts)
  \/ UserEdit(OpTexts)
  \/ Copy
  \/ Format
  \/ Validate
  \/ Clear
  \/ FieldSort
  \/ MoreActionUnescape
  \/ MoreActionDelComment
  \/ SaveFile
  \/ SetLanguage

Spec == Init /\ [][Next]_vars

\* Editing, the language switches and the validation timer.
DebounceTexts == {T_Blank, T_Obj, T_Trunc, T_Five}

NextDebounce ==
  \/ InitializeEditor(DebounceTexts)
  \/ UserEdit(DebounceTexts)
  \/ UpdateValue(DebounceTexts)
  \/ Clear
  \/ Validate
  \/ SetLanguage
  \/ HandleLanguageChange
  \/ HandleReset
  \/ LanguageProp(DebounceTexts)
  \/ TimerFire
  \/ Tick

SpecDebounce == Init /\ [][NextDebounce]_vars

\* The error banner, the error-details modal and repair.
ErrorTexts == {T_Empty, T_Blank, T_Trunc, T_Five, T_Line2, T_Junk}

NextError ==
  \/ InitializeEditor(ErrorTexts)
  \/ UserEdit(ErrorTexts)
  \/ Validate
  \/ TimerFire
  \/ Tick
  \/ OpenModal
  \/ CloseModal
  \/ GoToErrorLine
  \/ AutoFix
  \/ ClearHighlight

SpecError == Init /\ [][NextError]_vars

\* Repair and the undo history.
UndoTexts == {T_Obj, T_Trunc, T_Five, T_Junk}

InitUndo == Start(TRUE)

NextUndo ==
  \/ InitializeEditor(UndoTexts)
  \/ UserEdit(UndoTexts)
  \/ Undo
  \/ Validate
  \/ Clear
  \/ TimerFire
  \/ Tick
  \/ AutoFix

SpecUndo == InitUndo /\ [][NextUndo]_vars

\* Escaping to the clipboard and unescaping the buffer.
T_EscStr == <<BS, DQ, "a", BS, DQ>>
T_Word   == <<"a">>
EscapeTexts == {T_Empty, T_Obj, T_Arr, T_Num, T_EscStr, T_Word}

NextEscape ==
  \/ InitializeEditor(EscapeTexts)
  \/ UserEdit(EscapeTexts)
  \/ Paste
  \/ Copy
  \/ Format
  \/ MoreActionUnescape

SpecEscape == Init /\ [][NextEscape]_vars

\* Sorting the keys of nested objects, of objects in arrays and of scalars.
T_Nested ==
  <<"[", "{", DQ, "b", DQ, ":", "{", DQ, "d", DQ, ":", "1", ",",
    DQ, "c", DQ, ":", "2", "}", ",", DQ, "a", DQ, ":", "1", "}", "]">>
SortTexts == {T_Obj, T_Nested, T_Num, T_Trunc}

NextSort ==
  \/ InitializeEditor(SortTexts)
  \/ UserEdit(SortTexts)
  \/ FieldSort
  \/ Format

SpecSort == Init /\ [][NextSort]_vars

\* Edits that stop and time that passes, in an editor created on a blank
\* text whose language is switched between the two JSON dialects only.
\* Time passes as long as a timer is pending or the last edit is recent;
\* that a due timer runs is what the property about it assumes.
SettleTexts == {T_Blank, T_Obj, T_Trunc, T_Five}

SetDialect ==
  \E l \in {"json", "json5"} \ {modelLanguage} :
    Done("setLanguage", setLanguage(CompState, l))

NextSettle ==
  \/ InitializeEditor({T_Blank})
  \/ UserEdit(SettleTexts)
  \/ UpdateValue(SettleTexts)
  \/ Clear
  \/ Validate
  \/ Format
  \/ SetDialect
  \/ TimerFire
  \/ Tick

SpecSettle == Init /\ [][NextSettle]_vars /\ WF_vars(Tick)

\* The operation bar over an editor that holds nothing, valid or invalid
\* JSON.
BarTexts == {T_Obj, T_Trunc}

NextBar ==
  \/ InitializeEditor(BarTexts)
  \/ UserEdit(BarTexts)
  \/ \E d \in Dropdowns, part \in {"trigger", "menu"} : MouseEnter(d, part)
  \/ \E d \in Dropdowns : MouseLeave(d)
  \/ \E d \in Dropdowns : DropdownTimerFire(d)
  \/ BarTick
  \/ \E key \in {"asc", "desc"} : onAction(key)

SpecBar == Init /\ [][NextBar]_vars

\* Dragging the floating menu and resizing its container.
ClientPoints == {[x |-> 0, y |-> 0], [x |-> 150, y |-> 40], [x |-> 290, y |-> 290]}
ContainerSizes == {100, 300}

NextMenu ==
  \/ \E p \in ClientPoints : startDrag(p.x, p.y)
  \/ \E p \in ClientPoints \ {client} : handleDrag(p.x, p.y)
  \/ finishDrag
  \/ \E width, height \in ContainerSizes :
       /\ [w |-> width, h |-> height] # container
       /\ handleResize(width, height)

SpecMenu == Init /\ [][NextMenu]_vars

\* Mounting, unmounting and mounting again, with loader.init() resolving
\* at any moment, and an editor that is used once it is there.
NextMount ==
  \/ MountEffect
  \/ MountCleanup
  \/ InitializeEditorCall
  \/ InitializeEditorResume(OpTexts)
  \/ UserEdit(OpTexts)
  \/ Validate

SpecMount == Init /\ [][NextMount]_vars

\* The tab store under every operation with every key.
NextTabs ==
  \/ addTab
  \/ closeAllTabs
  \/ \E key \in KeyArgs :
       \/ closeTab(key)
       \/ setActiveTab(key)
       \/ closeOtherTabs(key)
       \/ closeLeftTabs(key)
       \/ closeRightTabs(key)
       \/ \E newTitle \in TitleArgs : renameTab(key, newTitle)

SpecTabs == Init /\ [][NextTabs]_vars

\* The tab store under every operation with the keys of the tabs there
\* are, which is what the tab bar and its context menu pass.
ExistingKeys == {tabs[i].key : i \in 1..Len(tabs)}

NextExistingTabs ==
  \/ addTab
  \/ closeAllTabs
  \/ \E key \in ExistingKeys :
       \/ closeTab(key)
       \/ setActiveTab(key)
       \/ closeOtherTabs(key)
       \/ closeLeftTabs(key)
       \/ closeRightTabs(key)
       \/ \E newTitle \in TitleArgs : renameTab(key, newTitle)

SpecExistingTabs == Init /\ [][NextExistingTabs]_vars

(***************************************************************************)
(* Properties of the debounced validation, checked under SpecDebounce      *)
(***************************************************************************)
\* C1: under json/json5 every content-change event cancels the pending
\* validation timer and sets a new one of Delay on the text of the event, so
\* at most one timer is pending at any time, and a validation set off by
\* editing runs only when Delay has passed since the last such event.
C1_Debounce ==
  /\ Len(timers) <= 1
  /\ timeoutRef = Len(timers)
  /\ lastOp.name = "edit" /\ IsJsonLanguage(modelLanguage)
       => timers = <<[val |-> buffer, left |-> Delay]>>
  /\ lastOp.name = "timer" => sinceEdit >= Delay

\* A validation has run Delay after an edit that replaced a pending timer.
C1_Witness ==
  /\ lastOp.name = "timer"
  /\ sinceEdit = Delay
  /\ timers = <<>>
  /\ lastOp.before # <<>>

\* C2: a debounced validation that fires validates the text the buffer holds
\* at that moment: no stale text is ever validated.  (The timer a step
\* fires is the one that was due and is gone afterwards.)
C2_NoStaleText ==
  [][\A i \in 1..Len(timers) :
       /\ lastOp'.name = "timer"
       /\ timers[i].left = 0
       /\ timers' = RemoveAt(timers, i)
       => timers[i].val = buffer]_vars

\* C3: editorValueValidate on an empty or whitespace-only text returns true
\* and sets the error to null; on any other text it parses with JSON5 when
\* the model's language is json5 and with strict JSON otherwise, returns
\* true and sets the error to null when the parse succeeds, and returns
\* false and sets the error to the parser's error when it fails.  It is
\* checked on the steps that end with it: a timer that fires, on the text
\* the timer holds, and validate() on a buffer that is not blank.
C3_Validate ==
  [][LET five == modelLanguage = "json5"
         valid(text) == Trim(text) = <<>> \/ ParseText(text, five).ok
         validated(text) ==
           /\ lastOp'.ret = Bool(valid(text))
           /\ parseJsonError' = NoError <=> valid(text)
           /\ ~valid(text) =>
                parseJsonError'.parser = IF five THEN "json5" ELSE "json"
     IN /\ \A i \in 1..Len(timers) :
             /\ lastOp'.name = "timer"
             /\ timers[i].left = 0
             /\ timers' = RemoveAt(timers, i)
             => validated(timers[i].val)
        /\ lastOp'.name = "validate" /\ editorRef /\ Trim(buffer) # <<>>
             => validated(buffer)]_vars

\* A validation of a text that is valid JSON5 only has failed under json
\* while an error of the other parser was showing.
C3_Witness ==
  /\ lastOp.name = "timer"
  /\ lastOp.ret = "false"
  /\ parseJsonError.parser = "json"
  /\ lastOp.before = T_Five

(***************************************************************************)
(* Properties of the error banner and its actions, checked under SpecError *)
(***************************************************************************)
\* C4: goToErrorLine changes nothing and reports failure when the error is
\* null or its line is not positive, the modal staying as it was; otherwise
\* it closes the modal and reveals and highlights the error's line, which is
\* at least 1.
C4_GoToErrorLine ==
  [][lastOp'.name = "goToErrorLine" =>
       IF parseJsonError = NoError \/ parseJsonError.line <= 0
       THEN /\ lastOp'.ret = "false"
            /\ UNCHANGED <<buffer, parseJsonError, modalOpen, revealed,
                           decoration>>
       ELSE /\ lastOp'.ret = "true"
            /\ ~modalOpen'
            /\ parseJsonError.line >= 1
            /\ revealed' = parseJsonError.line
            /\ decoration' = parseJsonError.line
            /\ UNCHANGED <<buffer, parseJsonError>>]_vars

\* goToErrorLine has refused an error without a line while the modal was
\* open, and the modal is still open.
C4_Witness ==
  /\ lastOp.name = "goToErrorLine"
  /\ lastOp.ret = "false"
  /\ parseJsonError # NoError
  /\ parseJsonError.line = 0
  /\ modalOpen

\* C6: autoFix returns false when the buffer is blank or the repair throws,
\* and whenever it returns false the buffer, the error and the modal are as
\* they were.
C6_AutoFixFails ==
  [][lastOp'.name = "autoFix" =>
       /\ Trim(buffer) = <<>> \/ ~jsonrepair(buffer).ok => lastOp'.ret = "false"
       /\ lastOp'.ret = "false" =>
            UNCHANGED <<buffer, parseJsonError, modalOpen>>]_vars

\* autoFix has failed on a text it cannot repair, with the modal open.
C6_Witness ==
  /\ lastOp.name = "autoFix"
  /\ lastOp.ret = "false"
  /\ buffer = T_Junk
  /\ modalOpen
  /\ parseJsonError # NoError

\* C8: the banner has its height exactly when the error is not null, and
\* exactly then the editor area of a numeric height is smaller by
\* errorBottomHeight.
C8_BannerIffError ==
  /\ bannerHeight(CompState) > 0 <=> parseJsonError # NoError
  /\ getEditorHeight(CompState, 600) = 600 - bannerHeight(CompState)

(***************************************************************************)
(* Auto-fix and the undo history, checked under SpecUndo                   *)
(***************************************************************************)
\* C5: right after autoFix returns true the error is null, and one undo
\* step following it restores the buffer autoFix started from.
C5_AutoFixUndo ==
  [][/\ lastOp'.name = "autoFix" /\ lastOp'.ret = "true"
          => parseJsonError' = NoError
     /\ lastOp.name = "autoFix" /\ lastOp.ret = "true" /\ lastOp'.name = "undo"
          => buffer' = lastOp.before]_vars

(***************************************************************************)
(* The operations exposed through the ref, checked under Spec              *)
(***************************************************************************)
\* C7: copy, format, validate, clear, fieldSort, moreAction and saveFile
\* return true or false for whatever the buffer holds under whatever
\* dialect: none of them throws.
C7_NoThrow ==
  lastOp.name \in {"copy", "format", "validate", "clear", "fieldSort",
                   "unescape", "del_comment", "saveFile"}
    => lastOp.ret \in {"true", "false"}

(***************************************************************************)
(* Escape and unescape, checked under SpecEscape                           *)
(***************************************************************************)
\* C9: unescape succeeds exactly when the buffer, put between double quotes,
\* is a JSON string whose content is JSON for an object or an array, and
\* then the buffer becomes that value printed with four spaces; in every
\* other case it returns false and the buffer is as it was.
C9_Unescape ==
  [][lastOp'.name = "unescape" =>
       LET unescapedJson == JSONparse(<<DQ>> \o buffer \o <<DQ>>)
           inner == JSONparse(unescapedJson.v.s)
           isEscaped == /\ editorRef
                        /\ buffer # <<>>
                        /\ unescapedJson.ok
                        /\ inner.ok
                        /\ inner.v.t \in {"obj", "arr"}
       IN IF isEscaped
          THEN lastOp'.ret = "true" /\ buffer' = JSONstringify(inner.v, 4)
          ELSE lastOp'.ret = "false" /\ buffer' = buffer]_vars

\* unescape has refused the escaped text of a number.
C9_Witness ==
  /\ lastOp.name = "unescape"
  /\ lastOp.ret = "false"
  /\ buffer = T_Num

C12_UniqueKeys ==
  /\ \A i, j \in 1..Len(tabs) : i # j => tabs[i].key # tabs[j].key
  /\ \A i \in 1..Len(tabs) : NumBody(tabs[i].key, 1, 0).v.n < nextKey

\* C12: addTab has added a tab to a store whose first tab had been closed.
C12_Witness ==
  /\ tabOp.name = "addTab"
  /\ Len(tabs) >= 2
  /\ tabs[1].key # <<"1">>
  /\ tabs[Len(tabs)].key = NumText(nextKey - 1)

\* C14: after any sequence of store operations with any key arguments the
\* store holds at least one tab.
C14_NonEmpty == tabs # <<>>

C16_RenameTab ==
  /\ [][tabOp'.name = "renameTab"
        => /\ activeTabKey' = activeTabKey
           /\ nextKey' = nextKey
           /\ Len(tabs') = Len(tabs)
           /\ \A i \in 1..Len(tabs) :
                /\ tabs'[i].key = tabs[i].key
                /\ tabs'[i].content = tabs[i].content
                /\ tabs'[i].title =
                     IF /\ tabs[i].key = tabOp'.key
                        /\ \E c \in 1..Len(tabOp'.title) : ~IsWs(tabOp'.title[c])
                     THEN Trim(tabOp'.title)
                     ELSE tabs[i].title]_vars
  /\ [](\A i \in 1..Len(tabs) :
          \E c \in 1..Len(tabs[i].title) : ~IsWs(tabs[i].title[c]))

\* C16: renameTab has given a tab a title that it had to trim.
C16_Witness ==
  /\ tabOp.name = "renameTab"
  /\ tabOp.title = <<" ", "x", " ">>
  /\ \E i \in 1..Len(tabs) : tabs[i].key = tabOp.key /\ tabs[i].title = <<"x">>

(***************************************************************************)
(* Settling, checked under SpecSettle.                                     *)
(***************************************************************************)

\* C13: once edits have stopped (the buffer holds its final text, no content
\* change is recent) while the model's language is json or json5, and no
\* due timer is left waiting for ever, the parse-error state is from some
\* moment on null exactly when the final text is blank or parses in the
\* model's dialect.
C13_Settles ==
  \A b \in SettleTexts, l \in {"json", "json5"} :
    (/\ <>[](buffer = b /\ modelLanguage = l /\ sinceEdit = Delay)
     /\ []<>(\A i \in 1..Len(timers) : timers[i].left > 0))
    => <>[](parseJsonError = NoError
             <=> (Trim(b) = <<>> \/ ParseText(b, l = "json5").ok))

(***************************************************************************)
(* The operation bar, checked under SpecBar.                               *)
(***************************************************************************)

\* C17: each dropdown has at most one close timer pending; while the pointer
\* is over its trigger or its menu the dropdown is open and no close timer
\* is pending; a close timer that fires is the one the last leave set, with
\* the pointer still away; and an enter, also one that comes while a close
\* timer is pending, leaves the dropdown open with no timer pending.
C17_HoverDropdown ==
  /\ [](\A d \in Dropdowns :
          /\ Len(dropdownTimers[d]) <= 1
          /\ pointer[d] # "out" => dropdownOpen[d] /\ dropdownTimers[d] = <<>>)
  /\ [][\A d \in Dropdowns :
          /\ lastOp'.name = "closeDropdown" /\ lastOp'.arg = d
             => /\ pointer[d] = "out"
                /\ dropdownRef[d] = 1
                /\ dropdownTimers[d] = <<[val |-> <<>>, left |-> 0]>>
                /\ dropdownTimers'[d] = <<>>
          /\ lastOp'.name = "showDropdown" /\ lastOp'.arg = d
             => dropdownOpen'[d] /\ dropdownTimers'[d] = <<>>]_vars

\* C17: the pointer has gone from the trigger of the sort dropdown to its
\* menu (a leave, then an enter before the timer fired), and more than the
\* delay later the dropdown is open.
C17_Witness ==
  /\ pointer["sort"] = "menu"
  /\ dropdownOpen["sort"]
  /\ dropdownTimers["sort"] = <<>>
  /\ dropdownTimers["more"] # <<>>
  /\ dropdownTimers["more"][1].left = 0

\* C18: after an item of the sort menu is chosen the success notification
\* is raised exactly when onFieldSort returned true.
C18_ToastIffSorted ==
  [][lastOp'.name = "onAction"
     => (toast' = "success" <=> lastOp'.ret = "true")]_vars

(***************************************************************************)
(* The floating menu, checked under SpecMenu.                              *)
(***************************************************************************)

\* C19: a finishDrag that runs while dragging docks the menu to the edge
\* nearest to the place it was dropped at (where it was when the drag began,
\* moved by what the pointer has moved since), ties going to left, right,
\* top, bottom in that order; the coordinate across that edge hides half of
\* the menu, the coordinate along it lies in 0 .. container - menu, and
\* isDragging is false afterwards.
C19_DocksToNearestEdge ==
  [][isDragging /\ ~isDragging'
     => LET x == dragStateRef.initialX + (client.x - dragStateRef.startX)
            y == dragStateRef.initialY + (client.y - dragStateRef.startY)
            edge == <<"left", "right", "top", "bottom">>
            dist == <<x, container.w - (x + menuSize),
                      y, container.h - (y + menuSize)>>
        IN /\ \E k \in 1..4 :
                /\ dockedPosition' = edge[k]
                /\ \A j \in 1..4 : dist[k] <= dist[j]
                /\ \A j \in 1..(k - 1) : dist[j] > dist[k]
           /\ dockedPosition' = "left" => menuPosition'.x = 0 - menuSize \div 2
           /\ dockedPosition' = "right"
                => menuPosition'.x = container.w - menuSize \div 2
           /\ dockedPosition' = "top" => menuPosition'.y = 0 - menuSize \div 2
           /\ dockedPosition' = "bottom"
                => menuPosition'.y = container.h - menuSize \div 2
           /\ dockedPosition' \in {"left", "right"}
                => menuPosition'.y \in 0..(container.h - menuSize)
           /\ dockedPosition' \in {"top", "bottom"}
                => menuPosition'.x \in 0..(container.w - menuSize)]_vars

\* C20: after a resize the coordinate of the menu along the edge it is
\* docked to lies in 0 .. the container's extent, and the coordinate across
\* that edge hides half of the menu at the edge.
C20_ResizeKeepsMenuInside ==
  [][container' # container
     => /\ dockedPosition' \in {"left", "right"}
             => menuPosition'.y \in 0..container'.h
        /\ dockedPosition' \in {"top", "bottom"}
             => menuPosition'.x \in 0..container'.w
        /\ dockedPosition' = "left" => menuPosition'.x = 0 - menuSize \div 2
        /\ dockedPosition' = "right"
             => menuPosition'.x = container'.w - menuSize \div 2
        /\ dockedPosition' = "top" => menuPosition'.y = 0 - menuSize \div 2
        /\ dockedPosition' = "bottom"
             => menuPosition'.y = container'.h - menuSize \div 2]_vars

(***************************************************************************)
(* Mounting the editor, checked under SpecMount.                           *)
(***************************************************************************)

\* C21: under any sequence of runs of the mount effect and of its cleanup,
\* with loader.init() resolving at any moment, at most one editor is ever
\* created (and so editorRef.current is assigned at most once).
C21_OneEditor == editorsCreated <= 1

(***************************************************************************)
(* The active tab, checked under SpecExistingTabs.                         *)
(***************************************************************************)

\* C22: when every key argument names a tab that exists, activeTabKey is
\* the key of a tab in tabs in every reachable state of the store, so
\* activeTab() returns that tab: its key is activeTabKey, it is not the
\* fallback tabs[0] standing in for a missing tab, and it is not undefined.
C22_ActiveTabPresent ==
  /\ \E i \in 1..Len(tabs) : tabs[i].key = activeTabKey
  /\ activeTab # undefined
  /\ activeTab.key = activeTabKey
  /\ activeTab = tabs[FindIndex(tabs, activeTabKey)]

\* closeTab has removed a tab from several and the active tab is the last
\* one, not the first: the case where closeTab moves the active key.
C22_Witness ==
  /\ tabOp.name = "closeTab"
  /\ Len(tabs) >= 2
  /\ \A i \in 1..Len(tabs) : tabs[i].key # tabOp.key
  /\ activeTabKey = tabs[Len(tabs)].key
  /\ activeTab = tabs[Len(tabs)]
====
